---- MODULE Spec2Model ----
(***************************************************************************)
(* Model of the LocalStack orchestration scripts under src/scripts:        *)
(*   setup-localstack.py, deploy-lambda-localstack-zip.py,                 *)
(*   deploy-lambda-localstack.py, teardown-localstack.py.                  *)
(*                                                                         *)
(* Every script is a sequential process that calls external tools; the     *)
(* outcome of an external call (exit code, tool missing, HTTP answer,      *)
(* operator input) is an input chosen with \E.  The specifications share   *)
(* one initial state and differ in the operations they exercise:           *)
(*   SpecRun       run_command, every copy, every argument                 *)
(*   SpecSetup     setup-localstack.py main (readiness poll)               *)
(*   SpecBuild     build_and_package on the project directory's files      *)
(*   Spec          deploy runs (both variants) against one emulator        *)
(*   SpecTeardown  teardown-localstack.py main                             *)
(*   SpecScripts   any one of the scripts above, from start to end         *)
(***************************************************************************)
EXTENDS Integers, Sequences, FiniteSets

VARIABLES
    \* ---- SpecRun: a caller of run_command
    hpc,        \* "ready" | "exited"
    hlast,      \* the last call: arguments and what run_command did
    hcount,     \* calls made so far
    \* ---- SpecSetup: setup-localstack.py
    spc,        \* position in main()
    counter,    \* wait_for_localstack's counter
    attempts,   \* health checks performed so far
    successes,  \* health checks that answered 200
    lastCheck,  \* outcome of the latest health check
    sout,       \* the last message setup printed that decides its result
    sexit,      \* exit status of the setup process: {} while it runs, then {status}
    scwd,       \* working directory of the setup process
    \* ---- SpecTeardown: teardown-localstack.py
    tpc,        \* position in main()
    tstopped,   \* what stop_localstack returned
    dataDir,    \* TRUE while the localstack-data directory exists
    containers, \* the containers whose name matches localstack
    images,     \* the ids of the localstack/localstack images
    tqueue,     \* what is left of the for loop over containers or image ids
    tanswers,   \* the operator's answer to each prompt ("unasked" before)
    tlog,       \* the destructive commands invoked so far
    tsteps,     \* the steps of main entered so far
    tout,       \* the last message teardown printed that decides its result
    texit,      \* exit status of the teardown process: {} while it runs
    tcwd,       \* working directory of the teardown process
    \* ---- Spec: deploy runs against one emulator
    variant,    \* per run: "zip" | "image" ("none" before it starts)
    dpc,        \* per run: position in main()
    issued,     \* per run: the steps whose command or check was made
    okSteps,    \* per run: the steps whose command or check succeeded
    gets,       \* per run: HTTP GETs of the health path made
    createErr,  \* per run: stderr of a failed create-function
    shown,      \* per run: the error texts printed by the failure message of the upsert
    faulted,    \* per run: the emulator or the CLI broke its contract
    dout,       \* per run: the last message that decides the result
    dexit,      \* per run: exit status, {} while the run goes on
    dcwd,       \* per run: working directory
    emuCount,   \* emulator: how many functions named LAMBDA_NAME exist
    emuCode,    \* emulator: the run whose package the function holds (0: none)
    \* ---- SpecBuild: build_and_package on the files of LAMBDA_DIR
    bpc,        \* position in build_and_package
    fs,         \* LAMBDA_DIR: path |-> "none" | "file" | "dir"
    zipEntries, \* lambda.zip: entry name |-> how many entries have that name
    project,    \* the files the project publishes at present
    published,  \* the files the latest dotnet publish wrote
    builds,     \* runs of the script so far
    bexit,      \* exit status of the latest run, {} while it goes on
    bcwd        \* working directory of the latest run

hvars == <<hpc, hlast, hcount>>
svars == <<spc, counter, attempts, successes, lastCheck, sout, sexit, scwd>>
tvars == <<tpc, tstopped, dataDir, containers, images, tqueue, tanswers, tlog,
           tsteps, tout, texit, tcwd>>
dvars == <<variant, dpc, issued, okSteps, gets, createErr, shown, faulted, dout, dexit,
           dcwd, emuCount, emuCode>>
bvars == <<bpc, fs, zipEntries, project, published, builds, bexit, bcwd>>
vars == <<hvars, svars, tvars, dvars, bvars>>

(***************************************************************************)
(* Bounds of the model.                                                    *)
(***************************************************************************)
\* exit codes of an external process range over 0..MaxRc
MaxRc == 3
\* calls made by the run_command caller of SpecRun
MaxCalls == 3
\* deploy runs against the one emulator
NRuns == 2
\* runs of the zip script's build_and_package on one project directory
MaxBuilds == 3

(***************************************************************************)
(* subprocess.run: the outcome of launching an external command is either  *)
(* FileNotFoundError (the executable is not on the PATH) or an exit code.  *)
(***************************************************************************)
NotFound == -1
Outcomes == {NotFound} \cup (0..MaxRc)

\* what run_command does: return a CompletedProcess, return None, or
\* sys.exit(1)
Returned(rc) == [kind |-> "result", rc |-> rc]
ReturnedNone == [kind |-> "none", rc |-> 0]
SysExit(code) == [kind |-> "exit", rc |-> code]

\* subprocess.run(cmd, check=check): raises CalledProcessError when check is
\* set and the exit code is not 0
RaisesCalledProcessError(check, out) == check /\ out # 0

\* a run_command that treats a non-zero exit as fatal whatever check says
run_command_ignoring_check(check, out) ==
    IF out = NotFound THEN SysExit(1)
    ELSE IF out # 0 THEN SysExit(1)
    ELSE Returned(out)

\* deploy-lambda-localstack-zip.py run_command
run_command_zip(check, out) ==
    IF out = NotFound THEN SysExit(1)
    ELSE IF RaisesCalledProcessError(check, out) THEN SysExit(1)
    ELSE Returned(out)

\* deploy-lambda-localstack.py run_command
run_command_image(check, out) ==
    IF out = NotFound THEN SysExit(1)
    ELSE IF RaisesCalledProcessError(check, out) THEN SysExit(1)
    ELSE Returned(out)

\* setup-localstack.py run_command
run_command_setup(check, out) ==
    IF out = NotFound THEN SysExit(1)
    ELSE IF RaisesCalledProcessError(check, out) THEN SysExit(1)
    ELSE Returned(out)

\* teardown-localstack.py run_command: a failed command is a warning and
\* the caller gets None; a missing executable is still fatal
run_command_teardown(check, out) ==
    IF out = NotFound THEN SysExit(1)
    ELSE IF RaisesCalledProcessError(check, out) THEN ReturnedNone
    ELSE Returned(out)

Scripts == {"zip", "image", "setup", "teardown"}

run_command(script, check, out) ==
    CASE script = "zip" -> run_command_zip(check, out)
      [] script = "image" -> run_command_image(check, out)
      [] script = "setup" -> run_command_setup(check, out)
      [] script = "teardown" -> run_command_teardown(check, out)

(***************************************************************************)
(* SpecRun: a caller that invokes run_command with every argument.         *)
(***************************************************************************)
NoCall == [script |-> "none", check |-> FALSE, out |-> 0, did |-> ReturnedNone]

InitRun ==
    /\ hpc = "ready"
    /\ hlast = NoCall
    /\ hcount = 0

\* one call of run_command; sys.exit ends the calling process
CallRunCommand ==
    /\ hpc = "ready"
    /\ hcount < MaxCalls
    /\ \E script \in Scripts, check \in BOOLEAN, out \in Outcomes :
        LET did == run_command(script, check, out) IN
        /\ hlast' = [script |-> script, check |-> check, out |-> out, did |-> did]
        /\ hpc' = IF did.kind = "exit" THEN "exited" ELSE "ready"
    /\ hcount' = hcount + 1
    /\ UNCHANGED <<svars, tvars, dvars, bvars>>

(***************************************************************************)
(* Claims about run_command (checked under SpecRun).                       *)
(***************************************************************************)
Called == hlast.script # "none"
Launched == Called /\ hlast.out # NotFound
FatalExit == hlast.did.kind = "exit" /\ hlast.did.rc # 0
ReturnsResult == hlast.did = Returned(hlast.out)

\* C4 as stated: in every copy of run_command, teardown's included, a
\* launched command with check = true ends the process with a non-zero exit
\* if and only if it exits non-zero, and with check = false its result is
\* returned whatever the exit code.
C4_EveryCopyFatalIffNonZero ==
    Launched =>
        /\ hlast.check => (FatalExit <=> hlast.out # 0)
        /\ hlast.check => (hlast.out = 0 => ReturnsResult)
        /\ ~hlast.check => ReturnsResult

\* C4 amended: the copies of setup and of both deploy scripts are fatal
\* (exit status 1) with check = true if and only if the launched command
\* exits non-zero, and return the result with check = false; teardown's
\* copy never exits because of an exit code: with check = true a non-zero
\* exit makes it return None, otherwise it returns the result.  In every
\* copy a command that cannot be found is fatal (exit status 1) whatever
\* check is.
C4_FatalIffNonZeroExceptTeardown ==
    /\ (Launched /\ hlast.script # "teardown") =>
        /\ hlast.check => (FatalExit <=> hlast.out # 0)
        /\ FatalExit => hlast.did.rc = 1
        /\ ~FatalExit => ReturnsResult
        /\ ~hlast.check => ReturnsResult
    /\ (Launched /\ hlast.script = "teardown") =>
        /\ ~FatalExit
        /\ (hlast.check /\ hlast.out # 0) => hlast.did = ReturnedNone
        /\ ~(hlast.check /\ hlast.out # 0) => ReturnsResult
    /\ (Called /\ hlast.out = NotFound) => hlast.did = SysExit(1)
    /\ (hpc = "exited") <=> (Called /\ hlast.did.kind = "exit")

\* teardown's copy has been called with check = true on a command that
\* exited 1 and returned None, and the caller is still running
C4_Witness ==
    /\ hlast.script = "teardown" /\ hlast.check /\ hlast.out = 1
    /\ hlast.did = ReturnedNone
    /\ hpc = "ready"


(***************************************************************************)
(* setup-localstack.py                                                     *)
(***************************************************************************)
TIMEOUT == 60
\* time.sleep(2); counter += 2
INTERVAL == 2

InitSetup ==
    /\ spc = "check_docker"
    /\ counter = 0
    /\ attempts = 0
    /\ successes = 0
    /\ lastCheck = "none"
    /\ sout = "none"
    /\ sexit = {}
    /\ scwd = "orig"

(***************************************************************************)
(* urllib.request.urlopen(HEALTH_CHECK_URL, timeout=2): it returns a       *)
(* response (status 200, or another 2xx status) or raises.  Each exception *)
(* class is listed with its base classes, which is what an except clause   *)
(* matches on.  http.client.BadStatusLine (the peer answered with          *)
(* something that is not an HTTP status line) is raised by getresponse()   *)
(* and is not an OSError.                                                  *)
(***************************************************************************)
Responses == {"status200", "statusOther"}
Raised == {"HTTPError", "URLError", "ConnectionResetError", "TimeoutError",
           "BadStatusLine"}
CheckOutcomes == Responses \cup Raised

Bases(cls) ==
    CASE cls = "HTTPError" -> {"HTTPError", "URLError", "OSError", "Exception"}
      [] cls = "URLError" -> {"URLError", "OSError", "Exception"}
      [] cls = "ConnectionResetError" ->
            {"ConnectionResetError", "ConnectionError", "OSError", "Exception"}
      [] cls = "TimeoutError" -> {"TimeoutError", "OSError", "Exception"}
      [] cls = "BadStatusLine" -> {"BadStatusLine", "HTTPException", "Exception"}

\* an except clause naming the classes of `handled` catches an exception of
\* class cls
Catches(handled, cls) == Bases(cls) \cap handled # {}

\* wait_for_localstack: except (urllib.error.URLError, OSError, TimeoutError)
WaitHandled == {"URLError", "OSError", "TimeoutError"}

\* a scope whose os.chdir(original_dir) follows the command instead of
\* standing in a finally clause
LeaveScopeOnReturnOnly(original_dir, inside, how) ==
    IF how = "exit" THEN inside ELSE original_dir

\* original_dir = Path.cwd(); try: os.chdir(inside); ... finally:
\* os.chdir(original_dir): the working directory after the scope, whether it
\* is left by a return or by the SystemExit of a failing command
LeaveScope(original_dir, inside, how) == original_dir

\* how a scope is left after run_command did `did`
Leaving(did) == IF did.kind = "exit" THEN "exit" ELSE "return"

\* check_docker: docker info must succeed
check_docker ==
    /\ spc = "check_docker"
    /\ \E out \in Outcomes :
        LET did == run_command("setup", TRUE, out) IN
        IF did.kind = "exit"
        THEN /\ spc' = "exited"
             /\ sexit' = {1}
             /\ sout' = "docker_not_running"
        ELSE /\ spc' = "start_localstack"
             /\ sout' = "docker_running"
             /\ UNCHANGED sexit
    /\ UNCHANGED <<counter, attempts, successes, lastCheck, scwd>>
    /\ UNCHANGED <<hvars, tvars, dvars, bvars>>

\* start_localstack, up to os.chdir(project_root): a missing
\* docker-compose.yml is fatal before the directory is changed
start_localstack_chdir ==
    /\ spc = "start_localstack"
    /\ \E composeFileExists \in BOOLEAN :
        IF ~composeFileExists
        THEN /\ spc' = "exited"
             /\ sexit' = {1}
             /\ sout' = "compose_file_missing"
             /\ UNCHANGED scwd
        ELSE /\ spc' = "compose_up"
             /\ scwd' = "project_root"
             /\ UNCHANGED <<sexit, sout>>
    /\ UNCHANGED <<counter, attempts, successes, lastCheck>>
    /\ UNCHANGED <<hvars, tvars, dvars, bvars>>

\* start_localstack: docker-compose up -d localstack, then the finally
\* clause's os.chdir(original_dir); on success main enters
\* wait_for_localstack, which sets counter = 0
start_localstack_up ==
    /\ spc = "compose_up"
    /\ \E out \in Outcomes :
        LET did == run_command("setup", TRUE, out) IN
        /\ IF did.kind = "exit"
           THEN /\ spc' = "exited"
                /\ sexit' = {did.rc}
                /\ sout' = "command_failed"
           ELSE /\ spc' = "wait_test"
                /\ UNCHANGED <<sexit, sout>>
        /\ scwd' = LeaveScope("orig", scwd, Leaving(did))
    /\ counter' = 0
    /\ UNCHANGED <<attempts, successes, lastCheck>>
    /\ UNCHANGED <<hvars, tvars, dvars, bvars>>

\* wait_for_localstack: while counter < TIMEOUT; when the test fails the
\* function prints the timeout message, which names TIMEOUT, and exits 1
wait_loop_test ==
    /\ spc = "wait_test"
    /\ IF counter < TIMEOUT
       THEN /\ spc' = "wait_check"
            /\ UNCHANGED <<sexit, sout>>
       ELSE /\ spc' = "exited"
            /\ sexit' = {1}
            /\ sout' = "timeout60"
    /\ UNCHANGED <<counter, attempts, successes, lastCheck, scwd>>
    /\ UNCHANGED <<hvars, tvars, dvars, bvars>>

\* what one health check leads to
AfterCheck(res) ==
    IF res = "status200" THEN "returned"
    ELSE IF res \in Responses \/ Catches(WaitHandled, res) THEN "sleep"
    ELSE "traceback"

\* a poll that keeps polling after the endpoint answered 200
wait_health_check_keeps_polling ==
    /\ spc = "wait_check"
    /\ \E res \in CheckOutcomes :
        /\ lastCheck' = res
        /\ successes' = IF res = "status200" THEN successes + 1 ELSE successes
        /\ spc' = "wait_sleep"
    /\ attempts' = attempts + 1
    /\ UNCHANGED <<counter, scwd, sexit, sout>>
    /\ UNCHANGED <<hvars, tvars, dvars, bvars>>

\* wait_for_localstack: one urlopen of the health URL.  200 returns from
\* the function; another status or a caught exception falls through to the
\* sleep; an exception the except clause does not name ends the process
\* with a traceback (exit status 1)
wait_health_check ==
    /\ spc = "wait_check"
    /\ \E res \in CheckOutcomes :
        /\ lastCheck' = res
        /\ successes' = IF res = "status200" THEN successes + 1 ELSE successes
        /\ CASE AfterCheck(res) = "returned" ->
                    /\ spc' = "print_env"
                    /\ sout' = "ready"
                    /\ UNCHANGED sexit
             [] AfterCheck(res) = "sleep" ->
                    /\ spc' = "wait_sleep"
                    /\ UNCHANGED <<sexit, sout>>
             [] AfterCheck(res) = "traceback" ->
                    /\ spc' = "exited"
                    /\ sexit' = {1}
                    /\ sout' = "traceback"
    /\ attempts' = attempts + 1
    /\ UNCHANGED <<counter, scwd>>
    /\ UNCHANGED <<hvars, tvars, dvars, bvars>>

\* wait_for_localstack: print the progress line, time.sleep(2), counter += 2
wait_sleep ==
    /\ spc = "wait_sleep"
    /\ counter' = counter + INTERVAL
    /\ spc' = "wait_test"
    /\ UNCHANGED <<attempts, successes, lastCheck, sout, sexit, scwd>>
    /\ UNCHANGED <<hvars, tvars, dvars, bvars>>

\* print_environment_setup, then main returns: exit status 0
print_environment_setup ==
    /\ spc = "print_env"
    /\ spc' = "done"
    /\ sexit' = {0}
    /\ sout' = "setup_complete"
    /\ UNCHANGED <<counter, attempts, successes, lastCheck, scwd>>
    /\ UNCHANGED <<hvars, tvars, dvars, bvars>>

NextSetup ==
    \/ check_docker
    \/ start_localstack_chdir
    \/ start_localstack_up
    \/ wait_loop_test
    \/ wait_health_check
    \/ wait_sleep
    \/ print_environment_setup

(***************************************************************************)
(* Claims about wait_for_localstack (checked under SpecSetup).             *)
(***************************************************************************)
\* C2: wait_for_localstack returns at the first health check that answers
\* 200 and makes no check after it: at most one check ever succeeds, the
\* successful check is the latest check made, and the function has returned
\* (Ready) exactly when a check has succeeded.
C2_ReadyAtFirstSuccess ==
    /\ successes <= 1
    /\ successes = 1 => lastCheck = "status200"
    /\ successes = 1 <=> spc \in {"print_env", "done"}
    /\ successes = 1 => sexit \subseteq {0}

\* the poll returned Ready at a check that followed failed checks
C2_Witness ==
    /\ spc = "done"
    /\ successes = 1
    /\ attempts > 2
    /\ lastCheck = "status200"

\* the poll has ended without any check succeeding
PollFailed == spc = "exited" /\ attempts > 0 /\ successes = 0

\* C3: when no health check succeeds, wait_for_localstack makes
\* floor(TIMEOUT / INTERVAL) = 30 checks (give or take one), then prints the
\* timeout message naming 60 and exits with status 1; it never makes more
\* checks than that and never returns normally.
C3_TimesOutAfterThirtyChecks ==
    /\ attempts <= (TIMEOUT \div INTERVAL) + 1
    /\ PollFailed =>
        /\ attempts >= (TIMEOUT \div INTERVAL) - 1
        /\ sout = "timeout60"
        /\ sexit = {1}

\* C12: in wait_for_localstack a health check that fails (a network error,
\* a timeout, an answer other than 200) is "not yet ready" and nothing more:
\* as long as no check has succeeded the loop is still polling, or it has
\* ended because the budget of TIMEOUT seconds is used up; no failed check
\* ends the loop or the process.
C12_FailedCheckNeverAborts ==
    (attempts > 0 /\ successes = 0) =>
        \/ spc \in {"wait_sleep", "wait_test", "wait_check"}
        \/ spc = "exited" /\ sout = "timeout60" /\ counter >= TIMEOUT

(***************************************************************************)
(* teardown-localstack.py                                                  *)
(***************************************************************************)
\* what the operator may type at an input() prompt
Answers == {"y", "Y", "n", "yes", ""}

\* str.lower() on the answers
Lower(a) == IF a = "Y" THEN "y" ELSE a

\* a comparison that takes every non-empty answer for a yes
AffirmativeNonEmpty(a) == a # ""

\* a comparison that looks at the first letter of the lower-cased answer
AffirmativeFirstLetter(a) == Lower(a) \in {"y", "yes"}

\* response.lower() == 'y'
Affirmative(a) == Lower(a) = "y"

ContainerNames == {"localstack", "localstack_old"}
ImageIds == {"img1", "img2"}
Prompts == {"continue", "data", "containers", "images_main", "images"}

InitTeardown ==
    /\ tpc = "start"
    /\ tstopped = FALSE
    /\ dataDir = FALSE
    /\ containers = {}
    /\ images = {}
    /\ tqueue = {}
    /\ tanswers = [p \in Prompts |-> "unasked"]
    /\ tlog = {}
    /\ tsteps = {}
    /\ tout = "none"
    /\ texit = {}
    /\ tcwd = "orig"

\* main starts: the machine holds any data directory, containers and images
teardown_start ==
    /\ tpc = "start"
    /\ dataDir' \in BOOLEAN
    /\ containers' \in SUBSET ContainerNames
    /\ images' \in SUBSET ImageIds
    /\ tpc' = "stop"
    /\ UNCHANGED <<tstopped, tqueue, tanswers, tlog, tsteps, tout, texit, tcwd>>
    /\ UNCHANGED <<hvars, svars, dvars, bvars>>

\* stop_localstack, up to os.chdir(project_root): without docker-compose.yml
\* it returns False and the directory is not changed
stop_localstack_chdir ==
    /\ tpc = "stop"
    /\ tsteps' = tsteps \cup {"stop"}
    /\ \E composeFileExists \in BOOLEAN :
        IF ~composeFileExists
        THEN /\ tstopped' = FALSE
             /\ tpc' = "confirm"
             /\ tout' = "compose_file_missing"
             /\ UNCHANGED tcwd
        ELSE /\ tcwd' = "project_root"
             /\ tpc' = "compose_down"
             /\ UNCHANGED <<tstopped, tout>>
    /\ UNCHANGED <<dataDir, containers, images, tqueue, tanswers, tlog, texit>>
    /\ UNCHANGED <<hvars, svars, dvars, bvars>>

\* stop_localstack: docker-compose down with check=False, then the finally
\* clause's os.chdir(original_dir).  down removes the containers of the
\* compose project, all of them only when it succeeds
stop_localstack_down ==
    /\ tpc = "compose_down"
    /\ \E out \in Outcomes :
        LET did == run_command("teardown", FALSE, out) IN
        /\ IF did.kind = "exit"
           THEN /\ tpc' = "exited"
                /\ texit' = {did.rc}
                /\ tout' = "command_not_found"
                /\ UNCHANGED <<tstopped, containers>>
           ELSE /\ tstopped' = (did.kind = "result" /\ did.rc = 0)
                /\ tpc' = IF tstopped' THEN "volumes" ELSE "confirm"
                /\ tout' = IF tstopped' THEN "stopped" ELSE "maybe_not_running"
                /\ containers' \in SUBSET containers
                /\ UNCHANGED texit
        /\ tcwd' = LeaveScope("orig", tcwd, Leaving(did))
    /\ UNCHANGED <<dataDir, images, tqueue, tanswers, tlog, tsteps>>
    /\ UNCHANGED <<hvars, svars, dvars, bvars>>

\* main: stop_localstack returned False, so ask whether to continue; any
\* answer whose lower() is not 'y' prints Aborted and exits with status 0
main_confirm_continue ==
    /\ tpc = "confirm"
    /\ \E a \in Answers :
        /\ tanswers' = [tanswers EXCEPT !["continue"] = a]
        /\ IF ~Affirmative(a)
           THEN /\ tpc' = "exited"
                /\ texit' = {0}
                /\ tout' = "aborted"
           ELSE /\ tpc' = "volumes"
                /\ UNCHANGED <<texit, tout>>
    /\ UNCHANGED <<tstopped, dataDir, containers, images, tqueue, tlog, tsteps, tcwd>>
    /\ UNCHANGED <<hvars, svars, dvars, bvars>>

\* remove_volumes: when the data directory exists, ask, and on yes call
\* shutil.rmtree; an exception of rmtree is printed and swallowed
remove_volumes ==
    /\ tpc = "volumes"
    /\ tsteps' = tsteps \cup {"data"}
    /\ IF dataDir
       THEN \E a \in Answers :
            /\ tanswers' = [tanswers EXCEPT !["data"] = a]
            /\ IF Affirmative(a)
               THEN /\ tlog' = tlog \cup {"rmtree"}
                    /\ \E rmtreeRaises \in BOOLEAN :
                        /\ dataDir' = rmtreeRaises
                        /\ tout' = IF rmtreeRaises THEN "data_remove_failed"
                                   ELSE "data_removed"
               ELSE /\ tout' = "data_skipped"
                    /\ UNCHANGED <<tlog, dataDir>>
       ELSE /\ tout' = "no_data"
            /\ UNCHANGED <<tanswers, tlog, dataDir>>
    /\ tpc' = "containers"
    /\ UNCHANGED <<tstopped, containers, images, tqueue, texit, tcwd>>
    /\ UNCHANGED <<hvars, svars, dvars, bvars>>

\* the names or ids a listing command (docker ps -a, docker images) writes
\* to stdout: the existing ones when it exits 0, nothing when it fails
Listed(out, existing) == IF out = 0 THEN existing ELSE {}

\* cleanup_containers: docker ps -a with check=False; with a non-empty
\* listing ask, and on yes start the loop over the listed containers
cleanup_containers_list ==
    /\ tpc = "containers"
    /\ tsteps' = tsteps \cup {"containers"}
    /\ \E out \in Outcomes :
        LET did == run_command("teardown", FALSE, out) IN
        IF did.kind = "exit"
        THEN /\ tpc' = "exited"
             /\ texit' = {did.rc}
             /\ tout' = "command_not_found"
             /\ UNCHANGED <<tanswers, tqueue>>
        ELSE IF did.kind = "result" /\ Listed(out, containers) # {}
        THEN \E a \in Answers :
             /\ tanswers' = [tanswers EXCEPT !["containers"] = a]
             /\ IF Affirmative(a)
                THEN /\ tqueue' = Listed(out, containers)
                     /\ tpc' = "rm_loop"
                     /\ UNCHANGED tout
                ELSE /\ tpc' = "images_prompt"
                     /\ tout' = "containers_skipped"
                     /\ UNCHANGED tqueue
             /\ UNCHANGED texit
        ELSE /\ tpc' = "images_prompt"
             /\ tout' = "no_containers"
             /\ UNCHANGED <<tanswers, tqueue, texit>>
    /\ UNCHANGED <<tstopped, dataDir, containers, images, tlog, tcwd>>
    /\ UNCHANGED <<hvars, svars, dvars, bvars>>

\* cleanup_containers: one iteration of the for loop, docker rm -f with
\* check=False; a failed removal does not stop the loop
cleanup_containers_rm ==
    /\ tpc = "rm_loop"
    /\ \E c \in tqueue, out \in Outcomes :
        LET did == run_command("teardown", FALSE, out) IN
        IF did.kind = "exit"
        THEN /\ tpc' = "exited"
             /\ texit' = {did.rc}
             /\ tout' = "command_not_found"
             /\ UNCHANGED <<tqueue, tlog, containers>>
        ELSE /\ tqueue' = tqueue \ {c}
             /\ tlog' = tlog \cup {"docker_rm"}
             /\ containers' = IF out = 0 THEN containers \ {c} ELSE containers
             /\ tpc' = IF tqueue' = {} THEN "images_prompt" ELSE "rm_loop"
             /\ tout' = IF tqueue' = {} THEN "containers_removed" ELSE tout
             /\ UNCHANGED texit
    /\ UNCHANGED <<tstopped, dataDir, images, tanswers, tsteps, tcwd>>
    /\ UNCHANGED <<hvars, svars, dvars, bvars>>

\* main: the separately worded prompt in front of cleanup_images
main_confirm_images ==
    /\ tpc = "images_prompt"
    /\ tsteps' = tsteps \cup {"images"}
    /\ \E a \in Answers :
        /\ tanswers' = [tanswers EXCEPT !["images_main"] = a]
        /\ IF Affirmative(a)
           THEN /\ tpc' = "images"
                /\ UNCHANGED tout
           ELSE /\ tpc' = "complete"
                /\ tout' = "images_skipped"
    /\ UNCHANGED <<tstopped, dataDir, containers, images, tqueue, tlog, texit, tcwd>>
    /\ UNCHANGED <<hvars, svars, dvars, bvars>>

\* cleanup_images: docker images with check=False; with a non-empty listing
\* ask again, and on yes start the loop over the set of image ids
cleanup_images_list ==
    /\ tpc = "images"
    /\ \E out \in Outcomes :
        LET did == run_command("teardown", FALSE, out) IN
        IF did.kind = "exit"
        THEN /\ tpc' = "exited"
             /\ texit' = {did.rc}
             /\ tout' = "command_not_found"
             /\ UNCHANGED <<tanswers, tqueue>>
        ELSE IF did.kind = "result" /\ Listed(out, images) # {}
        THEN \E a \in Answers :
             /\ tanswers' = [tanswers EXCEPT !["images"] = a]
             /\ IF Affirmative(a)
                THEN /\ tqueue' = Listed(out, images)
                     /\ tpc' = "rmi_loop"
                     /\ UNCHANGED tout
                ELSE /\ tpc' = "complete"
                     /\ tout' = "images_skipped"
                     /\ UNCHANGED tqueue
             /\ UNCHANGED texit
        ELSE /\ tpc' = "complete"
             /\ tout' = "no_images"
             /\ UNCHANGED <<tanswers, tqueue, texit>>
    /\ UNCHANGED <<tstopped, dataDir, containers, images, tlog, tsteps, tcwd>>
    /\ UNCHANGED <<hvars, svars, dvars, bvars>>

\* cleanup_images: one iteration of the for loop, docker rmi with check=False
cleanup_images_rmi ==
    /\ tpc = "rmi_loop"
    /\ \E i \in tqueue, out \in Outcomes :
        LET did == run_command("teardown", FALSE, out) IN
        IF did.kind = "exit"
        THEN /\ tpc' = "exited"
             /\ texit' = {did.rc}
             /\ tout' = "command_not_found"
             /\ UNCHANGED <<tqueue, tlog, images>>
        ELSE /\ tqueue' = tqueue \ {i}
             /\ tlog' = tlog \cup {"docker_rmi"}
             /\ images' = IF out = 0 THEN images \ {i} ELSE images
             /\ tpc' = IF tqueue' = {} THEN "complete" ELSE "rmi_loop"
             /\ tout' = IF tqueue' = {} THEN "images_removed" ELSE tout
             /\ UNCHANGED texit
    /\ UNCHANGED <<tstopped, dataDir, containers, tanswers, tsteps, tcwd>>
    /\ UNCHANGED <<hvars, svars, dvars, bvars>>

\* main: print "Teardown complete!" and return: exit status 0
teardown_complete ==
    /\ tpc = "complete"
    /\ tpc' = "done"
    /\ tout' = "teardown_complete"
    /\ texit' = {0}
    /\ UNCHANGED <<tstopped, dataDir, containers, images, tqueue, tanswers, tlog,
                   tsteps, tcwd>>
    /\ UNCHANGED <<hvars, svars, dvars, bvars>>

NextTeardown ==
    \/ teardown_start
    \/ stop_localstack_chdir
    \/ stop_localstack_down
    \/ main_confirm_continue
    \/ remove_volumes
    \/ cleanup_containers_list
    \/ cleanup_containers_rm
    \/ main_confirm_images
    \/ cleanup_images_list
    \/ cleanup_images_rmi
    \/ teardown_complete

(***************************************************************************)
(* Claims about teardown-localstack.py (checked under SpecTeardown).       *)
(***************************************************************************)
Destructive == {"rmtree", "docker_rm", "docker_rmi"}
AbortedCleanly ==
    /\ tpc = "exited"
    /\ texit = {0}
    /\ tlog \cap Destructive = {}
    /\ tsteps = {"stop"}

\* C7 as stated: when the stop step did not succeed and the operator
\* answers the continue-anyway prompt with anything other than 'y', the
\* process exits with status 0 and no destructive cleanup action (rmtree of
\* the data directory, docker rm, docker rmi) has been performed.
C7_DeclineIsAnythingButLowerY ==
    (tanswers["continue"] \notin {"unasked", "y"} /\ tpc \in {"done", "exited"}) =>
        AbortedCleanly

\* C7 amended: when the stop step did not succeed and the operator answers
\* the continue-anyway prompt with anything other than 'y' or 'Y' (the
\* answer is lower-cased before it is compared), the process exits with
\* status 0 and no destructive cleanup action has been performed; the
\* prompt is only shown when the stop step did not succeed.
C7_DeclineAbortsWithoutCleanup ==
    /\ (tanswers["continue"] \notin {"unasked", "y", "Y"}) => AbortedCleanly
    /\ tanswers["continue"] # "unasked" => ~tstopped

\* docker-compose down failed, the operator answered "n", and the process
\* has exited 0 with the data directory and a container still there
C7_Witness ==
    /\ tout = "aborted"
    /\ tanswers["continue"] = "n"
    /\ texit = {0}
    /\ dataDir
    /\ containers # {}
    /\ tlog = {}

\* C8: once teardown goes on past the stop step, no failure inside a step
\* (a failed or unavailable external command, a failed deletion) keeps the
\* later steps from running: a terminated run that entered data removal
\* has entered all four steps and printed "Teardown complete".
C8_NoStepFailureStopsLaterSteps ==
    (tpc \in {"done", "exited"} /\ "data" \in tsteps) =>
        /\ tpc = "done"
        /\ tsteps = {"stop", "data", "containers", "images"}
        /\ tout = "teardown_complete"

\* the operator answered prompt q with 'y' or 'Y'
SaidYes(q) == tanswers[q] \in {"y", "Y"}

\* the operator answered prompt q with something else
Declined(q) == tanswers[q] \notin {"unasked", "y", "Y"}

\* C15: in every run of teardown each destructive cleanup action is
\* preceded by 'y' or 'Y' to that step's own prompt: rmtree of the data
\* directory by a yes to the data prompt, docker rm -f (and the loop that
\* issues it) by a yes to the container prompt, docker rmi (and its loop) by
\* a yes to both the image prompt of main and the prompt of cleanup_images;
\* any other answer, the empty one included, leaves that step's resources
\* as they are and the run goes on with the step after it: the container
\* step after the data prompt, the image prompt of main after the container
\* prompt, the end of the run after either image prompt.
C15_CleanupGatedByOwnPrompt ==
    /\ "rmtree" \in tlog => SaidYes("data")
    /\ ("docker_rm" \in tlog \/ tpc = "rm_loop") => SaidYes("containers")
    /\ ("docker_rmi" \in tlog \/ tpc = "rmi_loop") =>
          SaidYes("images_main") /\ SaidYes("images")
    /\ tanswers["images"] # "unasked" => SaidYes("images_main")
    /\ Declined("data") =>
          /\ "rmtree" \notin tlog /\ dataDir
          /\ tpc = "containers" \/ "containers" \in tsteps
    /\ Declined("containers") =>
          /\ "docker_rm" \notin tlog
          /\ "images" \in tsteps \/ tpc = "images_prompt"
    /\ (Declined("images_main") \/ Declined("images")) =>
          /\ "docker_rmi" \notin tlog
          /\ tpc \in {"complete", "done"}

\* a finished run in which the operator left the data prompt empty, said
\* 'Y' to the container prompt, 'y' to the image prompt of main and "yes"
\* to the prompt of cleanup_images: containers were removed, the data
\* directory and the images were not
C15_Witness ==
    /\ tpc = "done"
    /\ tanswers["data"] = "" /\ dataDir
    /\ tanswers["containers"] = "Y" /\ "docker_rm" \in tlog
    /\ tanswers["images_main"] = "y"
    /\ tanswers["images"] = "yes"
    /\ images # {}
    /\ tlog = {"docker_rm"}

(***************************************************************************)
(* deploy-lambda-localstack-zip.py and deploy-lambda-localstack.py         *)
(***************************************************************************)
Runs == 1..NRuns
Variants == {"zip", "image"}

\* Error text is a sequence of words; a str `in` test is a test for a
\* contiguous run of words, and lower() lower-cases every word.
LowerWord(w) ==
    CASE w = "ResourceConflictException" -> "resourceconflictexception"
      [] w = "Function" -> "function"
      [] w = "Already" -> "already"
      [] w = "EXISTS" -> "exists"
      [] OTHER -> w

LowerText(t) == [i \in 1..Len(t) |-> LowerWord(t[i])]

\* pat in t
Contains(t, pat) ==
    \E i \in 1..(Len(t) - Len(pat) + 1) : SubSeq(t, i, i + Len(pat) - 1) = pat

\* what `aws lambda create-function` writes to stderr when the emulator
\* answers that the function exists: the CLI names the exception
ConflictTexts ==
    { <<"ResourceConflictException", "Function", "already", "exist">>,
      <<"ResourceConflictException", "Function", "Already", "EXISTS">> }

\* other error texts
OtherTexts ==
    { <<"InvalidParameterValueException", "role">>,
      <<"resourceconflictexception">>,
      <<"Function", "Already", "EXISTS">>,
      <<"already", "running", "exists">>,
      << >> }

Texts == ConflictTexts \cup OtherTexts

\* a test for the words "already exists" alone
IsConflictPhraseOnly(stderr) ==
    Contains(LowerText(stderr), <<"already", "exists">>)

\* a test that lower-cases the text for the exception name as well
IsConflictAnyCase(stderr) ==
    \/ Contains(LowerText(stderr), <<"resourceconflictexception">>)
    \/ Contains(LowerText(stderr), <<"already", "exists">>)

\* "ResourceConflictException" in result.stderr
\*     or "already exists" in result.stderr.lower()
IsConflict(stderr) ==
    \/ Contains(stderr, <<"ResourceConflictException">>)
    \/ Contains(LowerText(stderr), <<"already", "exists">>)

\* The emulator's contract for create-function, atomic per name: it
\* succeeds exactly when no function of that name exists, and otherwise
\* fails with a conflict.
CreateContract(out, text) ==
    IF emuCount = 0 THEN out = 0
    ELSE out \in 1..MaxRc /\ text \in ConflictTexts

\* The contract for update-function-code: it succeeds exactly when the
\* function exists.
UpdateContract(out) == IF emuCount >= 1 THEN out = 0 ELSE out \in 1..MaxRc

InitDeploy ==
    /\ variant = [p \in Runs |-> "none"]
    /\ dpc = [p \in Runs |-> "idle"]
    /\ issued = [p \in Runs |-> {}]
    /\ okSteps = [p \in Runs |-> {}]
    /\ gets = [p \in Runs |-> 0]
    /\ createErr = [p \in Runs |-> << >>]
    /\ shown = [p \in Runs |-> {}]
    /\ faulted = [p \in Runs |-> FALSE]
    /\ dout = [p \in Runs |-> "none"]
    /\ dexit = [p \in Runs |-> {}]
    /\ dcwd = [p \in Runs |-> "orig"]
    /\ emuCount = 0
    /\ emuCode = 0

Set(f, p, v) == [f EXCEPT ![p] = v]

\* sys.exit(code), or an exception nobody catches: the run is over
RunExits(p, code, msg) ==
    /\ dpc' = Set(dpc, p, "exited")
    /\ dexit' = Set(dexit, p, {code})
    /\ dout' = Set(dout, p, msg)

RunGoes(p, to, msg) ==
    /\ dpc' = Set(dpc, p, to)
    /\ dout' = Set(dout, p, msg)
    /\ UNCHANGED dexit

\* the steps made and the steps that succeeded
Record(p, steps, ok) ==
    /\ issued' = Set(issued, p, issued[p] \cup steps)
    /\ okSteps' = Set(okSteps, p, IF ok THEN okSteps[p] \cup steps ELSE okSteps[p])

\* a deploy script is started
deploy_start(p) ==
    /\ dpc[p] = "idle"
    /\ \E v \in Variants : variant' = Set(variant, p, v)
    /\ dpc' = Set(dpc, p, "tool_version")
    /\ UNCHANGED <<issued, okSteps, gets, createErr, shown, faulted, dout, dexit, dcwd,
                   emuCount, emuCode>>
    /\ UNCHANGED <<hvars, svars, tvars, bvars>>

\* check_prerequisites: dotnet --version (zip) or docker --version (image)
check_tool_version(p) ==
    /\ dpc[p] = "tool_version"
    /\ \E out \in Outcomes :
        LET did == run_command(variant[p], TRUE, out)
            step == IF variant[p] = "zip" THEN "dotnet_version" ELSE "docker_version"
        IN
        /\ Record(p, {step}, out = 0)
        /\ IF did.kind = "exit"
           THEN RunExits(p, 1, "tool_missing")
           ELSE RunGoes(p, "aws_version", dout[p])
    /\ UNCHANGED <<variant, gets, createErr, shown, faulted, dcwd, emuCount, emuCode>>
    /\ UNCHANGED <<hvars, svars, tvars, bvars>>

\* check_prerequisites: aws --version
check_aws_version(p) ==
    /\ dpc[p] = "aws_version"
    /\ \E out \in Outcomes :
        LET did == run_command(variant[p], TRUE, out) IN
        /\ Record(p, {"aws_version"}, out = 0)
        /\ IF did.kind = "exit"
           THEN RunExits(p, 1, "aws_missing")
           ELSE RunGoes(p, "localstack", dout[p])
    /\ UNCHANGED <<variant, gets, createErr, shown, faulted, dcwd, emuCount, emuCode>>
    /\ UNCHANGED <<hvars, svars, tvars, bvars>>

\* check_prerequisites of the zip script: except Exception
PrereqHandled == {"Exception"}

\* a check_prerequisites that tries the health path again after a failure
check_localstack_zip_retrying(p) ==
    /\ dpc[p] = "localstack"
    /\ variant[p] = "zip"
    /\ gets[p] < 2
    /\ \E res \in CheckOutcomes :
        /\ Record(p, {"health_get"}, res = "status200")
        /\ IF res = "status200"
           THEN RunGoes(p, "lambda_dir", "prereq_passed")
           ELSE IF gets[p] = 0
           THEN RunGoes(p, "localstack", dout[p])
           ELSE RunExits(p, 1, "localstack_not_accessible")
    /\ gets' = Set(gets, p, gets[p] + 1)
    /\ UNCHANGED <<variant, createErr, shown, faulted, dcwd, emuCount, emuCode>>
    /\ UNCHANGED <<hvars, svars, tvars, bvars>>

\* check_prerequisites of the zip script: one urlopen of the health path;
\* anything but a 200 answer is fatal
check_localstack_zip(p) ==
    /\ dpc[p] = "localstack"
    /\ variant[p] = "zip"
    /\ \E res \in CheckOutcomes :
        /\ Record(p, {"health_get"}, res = "status200")
        /\ IF res = "status200"
           THEN RunGoes(p, "lambda_dir", "prereq_passed")
           ELSE IF res \in Responses \/ Catches(PrereqHandled, res)
           THEN RunExits(p, 1, "localstack_not_accessible")
           ELSE RunExits(p, 1, "traceback")
    /\ gets' = Set(gets, p, gets[p] + 1)
    /\ UNCHANGED <<variant, createErr, shown, faulted, dcwd, emuCount, emuCode>>
    /\ UNCHANGED <<hvars, svars, tvars, bvars>>

\* check_prerequisites of the image script: docker ps with check=False; an
\* empty listing is fatal
check_localstack_image(p) ==
    /\ dpc[p] = "localstack"
    /\ variant[p] = "image"
    /\ \E out \in Outcomes, running \in BOOLEAN :
        LET did == run_command(variant[p], FALSE, out)
            stdout == Listed(out, IF running THEN {"localstack"} ELSE {})
        IN
        /\ Record(p, {"docker_ps"}, stdout # {})
        /\ IF did.kind = "exit"
           THEN RunExits(p, did.rc, "tool_missing")
           ELSE IF did.kind = "none" \/ stdout = {}
           THEN RunExits(p, 1, "container_not_running")
           ELSE RunGoes(p, "lambda_dir", "prereq_passed")
    /\ UNCHANGED <<variant, gets, createErr, shown, faulted, dcwd, emuCount, emuCode>>
    /\ UNCHANGED <<hvars, svars, tvars, bvars>>

\* build_and_package / build_docker_image, up to os.chdir(LAMBDA_DIR): a
\* missing LAMBDA_DIR is fatal before the directory is changed
EnterLambdaDir(p, to) ==
    /\ dpc[p] = "lambda_dir"
    /\ \E lambdaDirExists \in BOOLEAN :
        /\ Record(p, {"lambda_dir"}, lambdaDirExists)
        /\ IF ~lambdaDirExists
           THEN /\ RunExits(p, 1, "lambda_dir_missing")
                /\ UNCHANGED dcwd
           ELSE /\ RunGoes(p, to, dout[p])
                /\ dcwd' = Set(dcwd, p, "lambda_dir")
    /\ UNCHANGED <<variant, gets, createErr, shown, faulted, emuCount, emuCode>>
    /\ UNCHANGED <<hvars, svars, tvars, bvars>>

build_and_package_enter(p) ==
    /\ variant[p] = "zip"
    /\ EnterLambdaDir(p, "publish")

build_docker_image_enter(p) ==
    /\ variant[p] = "image"
    /\ EnterLambdaDir(p, "docker_build")

\* build_and_package: clean, dotnet publish (check=True), write lambda.zip,
\* and the finally clause's os.chdir(original_dir)
build_and_package_publish(p) ==
    /\ dpc[p] = "publish"
    /\ \E out \in Outcomes :
        LET did == run_command("zip", TRUE, out) IN
        /\ IF did.kind = "exit"
           THEN /\ Record(p, {"dotnet_publish"}, FALSE)
                /\ RunExits(p, did.rc, "command_failed")
           ELSE /\ Record(p, {"dotnet_publish", "package"}, out = 0)
                /\ RunGoes(p, "create", "package_created")
        /\ dcwd' = Set(dcwd, p, LeaveScope("orig", dcwd[p], Leaving(did)))
    /\ UNCHANGED <<variant, gets, createErr, shown, faulted, emuCount, emuCode>>
    /\ UNCHANGED <<hvars, svars, tvars, bvars>>

\* build_docker_image: docker build (check=True) and the finally clause
build_docker_image_build(p) ==
    /\ dpc[p] = "docker_build"
    /\ \E out \in Outcomes :
        LET did == run_command("image", TRUE, out) IN
        /\ Record(p, {"docker_build"}, out = 0)
        /\ IF did.kind = "exit"
           THEN RunExits(p, did.rc, "command_failed")
           ELSE RunGoes(p, "docker_tag", dout[p])
        /\ dcwd' = Set(dcwd, p, LeaveScope("orig", dcwd[p], Leaving(did)))
    /\ UNCHANGED <<variant, gets, createErr, shown, faulted, emuCount, emuCode>>
    /\ UNCHANGED <<hvars, svars, tvars, bvars>>

\* tag_and_push_image: docker tag (check=True)
tag_and_push_image_tag(p) ==
    /\ dpc[p] = "docker_tag"
    /\ \E out \in Outcomes :
        LET did == run_command("image", TRUE, out) IN
        /\ Record(p, {"docker_tag"}, out = 0)
        /\ IF did.kind = "exit"
           THEN RunExits(p, did.rc, "command_failed")
           ELSE RunGoes(p, "docker_push", dout[p])
    /\ UNCHANGED <<variant, gets, createErr, shown, faulted, dcwd, emuCount, emuCode>>
    /\ UNCHANGED <<hvars, svars, tvars, bvars>>

\* a tag_and_push_image that does not look at the exit code of docker push
AfterPushIgnoringExitCode(did) ==
    IF did.kind = "exit" THEN "exit" ELSE "pushed"

\* what tag_and_push_image does with the result of docker push
AfterPush(did) ==
    IF did.kind = "exit" THEN "exit"
    ELSE IF did.kind = "result" /\ did.rc # 0 THEN "push_failed"
    ELSE "pushed"

\* tag_and_push_image: docker push (check=False); a non-zero exit prints the
\* registry advice and exits 1
tag_and_push_image_push(p) ==
    /\ dpc[p] = "docker_push"
    /\ \E out \in Outcomes :
        LET did == run_command("image", FALSE, out) IN
        /\ Record(p, {"docker_push"}, out = 0)
        /\ CASE AfterPush(did) = "exit" -> RunExits(p, did.rc, "tool_missing")
             [] AfterPush(did) = "push_failed" -> RunExits(p, 1, "push_failed")
             [] AfterPush(did) = "pushed" -> RunGoes(p, "create", "pushed")
    /\ UNCHANGED <<variant, gets, createErr, shown, faulted, dcwd, emuCount, emuCode>>
    /\ UNCHANGED <<hvars, svars, tvars, bvars>>

\* deploy_lambda / create_or_update_lambda: create-function with
\* check=False, capture_output=True.  Exit 0: created.  Otherwise a conflict
\* signature in stderr leads to the update, and any other text is printed
\* and the run exits 1.  The emulator creates the function only when the
\* name is absent.
UpsertCreate(p) ==
    /\ dpc[p] = "create"
    /\ \E out \in Outcomes, text \in Texts :
        LET did == run_command(variant[p], FALSE, out) IN
        /\ out = 0 => emuCount = 0
        /\ out \in {0, NotFound} => text = << >>
        /\ Record(p, {"create"}, out = 0)
        /\ faulted' = Set(faulted, p, faulted[p] \/ ~CreateContract(out, text))
        /\ createErr' = Set(createErr, p, text)
        /\ shown' = Set(shown, p, IF did.kind = "result" /\ did.rc # 0 /\ ~IsConflict(text)
                                  THEN shown[p] \cup {text} ELSE shown[p])
        /\ emuCount' = IF out = 0 THEN emuCount + 1 ELSE emuCount
        /\ emuCode' = IF out = 0 THEN p ELSE emuCode
        /\ IF did.kind = "exit"
           THEN RunExits(p, did.rc, "tool_missing")
           ELSE IF did.rc = 0
           THEN RunGoes(p, "instructions", "created")
           ELSE IF IsConflict(text)
           THEN RunGoes(p, "update", "already_exists_updating")
           ELSE RunExits(p, 1, "create_failed")
    /\ UNCHANGED <<variant, gets, dcwd>>
    /\ UNCHANGED <<hvars, svars, tvars, bvars>>

\* deploy_lambda: open(zip_path, 'rb') first; when lambda.zip is gone (another
\* run of the script is rebuilding it) the open raises and nothing catches it
deploy_lambda_create(p) ==
    /\ variant[p] = "zip"
    /\ \E zipReadable \in BOOLEAN :
        IF zipReadable
        THEN UpsertCreate(p)
        ELSE /\ dpc[p] = "create"
             /\ RunExits(p, 1, "traceback")
             /\ UNCHANGED <<variant, issued, okSteps, gets, createErr, shown, faulted, dcwd,
                            emuCount, emuCode>>
             /\ UNCHANGED <<hvars, svars, tvars, bvars>>

create_or_update_lambda_create(p) ==
    /\ variant[p] = "image"
    /\ UpsertCreate(p)

\* deploy_lambda / create_or_update_lambda: update-function-code with
\* check=True
UpsertUpdate(p) ==
    /\ dpc[p] = "update"
    /\ \E out \in Outcomes :
        LET did == run_command(variant[p], TRUE, out) IN
        /\ out = 0 => emuCount >= 1
        /\ Record(p, {"update"}, out = 0)
        /\ faulted' = Set(faulted, p, faulted[p] \/ ~UpdateContract(out))
        /\ emuCode' = IF out = 0 THEN p ELSE emuCode
        /\ IF did.kind = "exit"
           THEN RunExits(p, did.rc, "command_failed")
           ELSE RunGoes(p, "instructions", "updated")
    /\ UNCHANGED <<variant, gets, createErr, shown, dcwd, emuCount>>
    /\ UNCHANGED <<hvars, svars, tvars, bvars>>

deploy_lambda_update(p) ==
    /\ variant[p] = "zip"
    /\ UpsertUpdate(p)

create_or_update_lambda_update(p) ==
    /\ variant[p] = "image"
    /\ UpsertUpdate(p)

\* print_test_instructions, then main returns: exit status 0
print_test_instructions(p) ==
    /\ dpc[p] = "instructions"
    /\ dpc' = Set(dpc, p, "done")
    /\ dexit' = Set(dexit, p, {0})
    /\ UNCHANGED <<variant, issued, okSteps, gets, createErr, shown, faulted, dout, dcwd,
                   emuCount, emuCode>>
    /\ UNCHANGED <<hvars, svars, tvars, bvars>>

NextDeploy ==
    \E p \in Runs :
        \/ deploy_start(p)
        \/ check_tool_version(p)
        \/ check_aws_version(p)
        \/ check_localstack_zip(p)
        \/ check_localstack_image(p)
        \/ build_and_package_enter(p)
        \/ build_and_package_publish(p)
        \/ build_docker_image_enter(p)
        \/ build_docker_image_build(p)
        \/ tag_and_push_image_tag(p)
        \/ tag_and_push_image_push(p)
        \/ deploy_lambda_create(p)
        \/ deploy_lambda_update(p)
        \/ create_or_update_lambda_create(p)
        \/ create_or_update_lambda_update(p)
        \/ print_test_instructions(p)

(***************************************************************************)
(* Claims about the deploy scripts (checked under Spec).                   *)
(***************************************************************************)
Terminated(p) == dpc[p] \in {"done", "exited"}
CreateRejected(p) == "create" \in issued[p] \ okSteps[p]

\* C1: in any sequence of deploy runs for the same function name, against
\* an emulator that keeps its contract, a run whose create-function
\* succeeds reports the creation, a run whose create-function is rejected
\* with a conflict issues update-function-code, and both finish with exit
\* code 0; no run ends with the conflict of create-function reported as a
\* failure.
C1_SecondCreateBecomesUpdate ==
    \A p \in Runs :
        /\ (dpc[p] = "update" /\ ~faulted[p]) =>
                CreateRejected(p) /\ createErr[p] \in ConflictTexts
        /\ (Terminated(p) /\ "create" \in issued[p] /\ ~faulted[p]) =>
            /\ dexit[p] = {0}
            /\ IF CreateRejected(p)
               THEN "update" \in okSteps[p] /\ dout[p] = "updated"
               ELSE "update" \notin issued[p] /\ dout[p] = "created"
        /\ dout[p] = "create_failed" => createErr[p] \notin ConflictTexts

\* run 1 created the function and ended; run 2's create was rejected, it
\* updated the function, and it ended with exit code 0
C1_Witness ==
    /\ dpc[1] = "done" /\ dout[1] = "created"
    /\ dpc[2] = "done" /\ dout[2] = "updated"
    /\ CreateRejected(2)
    /\ dexit[2] = {0}
    /\ emuCode = 2

\* the order of the steps of a run
StepOrder(v) ==
    IF v = "zip"
    THEN <<"dotnet_version", "aws_version", "health_get", "lambda_dir",
           "dotnet_publish", "package", "create", "update">>
    ELSE <<"docker_version", "aws_version", "docker_ps", "lambda_dir",
           "docker_build", "docker_tag", "docker_push", "create", "update">>

\* C9: the steps of a deploy run are gated in order: a step is only made
\* when every step before it succeeded (the update is the one step made
\* after a failure, that of create-function), so no build or packaging
\* command runs unless all of check_prerequisites passed and no
\* create-function is issued unless every build and packaging step exited 0
\* (docker build, tag and push for the image variant); a failure of a step
\* before create-function ends the run with exit status 1.
C9_StepsGatedInOrder ==
    \A p \in Runs : variant[p] # "none" =>
        LET order == StepOrder(variant[p]) IN
        /\ issued[p] \subseteq {order[i] : i \in 1..Len(order)}
        /\ \A i \in 1..Len(order) : order[i] \in issued[p] =>
              \A j \in 1..(i - 1) :
                  order[j] \in okSteps[p] \/ (order[j] = "create" /\ order[i] = "update")
        /\ \A s \in issued[p] \ okSteps[p] : s \notin {"create", "update"} =>
              dpc[p] = "exited" /\ dexit[p] = {1}

\* an image run whose docker push failed after a successful build and tag:
\* it exited 1 and issued no create-function
C9_Witness ==
    /\ variant[1] = "image"
    /\ dout[1] = "push_failed"
    /\ {"docker_build", "docker_tag"} \subseteq okSteps[1]
    /\ "docker_push" \in issued[1] \ okSteps[1]
    /\ "create" \notin issued[1]
    /\ dexit[1] = {1}

\* C10: when deploy runs for the same name overlap on one emulator whose
\* create-function is atomic per name and which keeps its contract, at most
\* one function of that name exists in every reachable state, a run
\* waiting to update finds it there, and once all runs have ended, having
\* reached the upsert, all have exit code 0, exactly one function exists
\* and exactly one run created it.
C10_ConcurrentUpsertsConverge ==
    /\ emuCount <= 1
    /\ \A p \in Runs : (dpc[p] = "update" /\ ~faulted[p]) => emuCount = 1
    /\ (\A p \in Runs : Terminated(p) /\ "create" \in issued[p] /\ ~faulted[p]) =>
        /\ \A p \in Runs : dexit[p] = {0}
        /\ emuCount = 1
        /\ Cardinality({p \in Runs : "create" \in okSteps[p]}) = 1
        /\ \A p \in Runs : CreateRejected(p) => "update" \in okSteps[p]

\* two runs are in the upsert at once: run 2 has just created the function
\* and has not ended, run 1 got the conflict and is about to update
C10_Witness ==
    /\ dpc[2] = "instructions" /\ dout[2] = "created"
    /\ dpc[1] = "update" /\ ~faulted[1]
    /\ variant[1] # variant[2]
    /\ emuCount = 1

\* the conflict signature: the exception name as it is written, or the
\* words "already exists" in any mix of upper and lower case
CarriesConflictSignature(text) ==
    \E i \in 1..Len(text) :
        \/ text[i] = "ResourceConflictException"
        \/ /\ i < Len(text)
           /\ LowerWord(text[i]) = "already"
           /\ LowerWord(text[i + 1]) = "exists"

\* create-function was launched and exited non-zero
CreateExitedNonZero(p) == CreateRejected(p) /\ dout[p] # "tool_missing"

\* C11: in the upsert step of either variant, update-function-code is
\* issued (or about to be) if and only if create-function exited non-zero
\* and its error text carries the conflict signature (the exception name
\* ResourceConflictException, or the words "already exists" matched
\* without regard to case); when create-function exits non-zero with a text
\* that carries neither, the run exits with status 1, the failure message
\* shows that very text, and no update is issued; a failed update ends the
\* run with exit status 1.
C11_UpdateIffConflictSignature ==
    \A p \in Runs :
        /\ (dpc[p] = "update" \/ "update" \in issued[p]) <=>
              (CreateExitedNonZero(p) /\ CarriesConflictSignature(createErr[p]))
        /\ (CreateExitedNonZero(p) /\ ~CarriesConflictSignature(createErr[p])) =>
              /\ dpc[p] = "exited" /\ dexit[p] = {1}
              /\ dout[p] = "create_failed"
              /\ shown[p] = {createErr[p]}
              /\ "update" \notin issued[p]
        /\ "update" \in issued[p] \ okSteps[p] =>
              dpc[p] = "exited" /\ dexit[p] = {1}

\* run 1's create-function failed with a text that is no conflict: it
\* exited 1 showing the text; run 2's create-function failed with "Already
\* EXISTS" in its text, it issued the update, the update failed and the run
\* exited 1
C11_Witness ==
    /\ dout[1] = "create_failed"
    /\ shown[1] = {<<"InvalidParameterValueException", "role">>}
    /\ "update" \notin issued[1]
    /\ dexit[1] = {1}
    /\ createErr[2] = <<"Function", "Already", "EXISTS">>
    /\ "update" \in issued[2] \ okSteps[2]
    /\ dexit[2] = {1}

\* the steps of a run after check_prerequisites
BuildSteps(v) ==
    IF v = "zip" THEN {"lambda_dir", "dotnet_publish", "package", "create", "update"}
    ELSE {"lambda_dir", "docker_build", "docker_tag", "docker_push", "create", "update"}

\* C13 as stated: in both deploy scripts check_prerequisites makes exactly
\* one HTTP GET of the health path (never a second one), a run that is past
\* check_prerequisites has made that GET, and a GET that does not answer 200
\* ends the run with exit status 1 before any build step.
C13_BothScriptsProbeHealthOnce ==
    \A p \in Runs :
        /\ gets[p] <= 1
        /\ issued[p] \cap BuildSteps(variant[p]) # {} =>
              gets[p] = 1 /\ "health_get" \in okSteps[p]
        /\ "health_get" \in issued[p] \ okSteps[p] =>
              /\ dpc[p] = "exited" /\ dexit[p] = {1}
              /\ issued[p] \cap BuildSteps(variant[p]) = {}

\* C13 (amended): the zip script's check_prerequisites makes exactly one
\* HTTP GET of the health path, never a second one, and a network error, a
\* timeout or a status other than 200 ends the run with exit status 1
\* before any build step; the image script makes no HTTP GET: it lists the
\* containers named localstack once with docker ps, and an empty listing or
\* a failed command ends the run with exit status 1 before any build step.
C13_ZipProbesHealthOnceImageListsContainers ==
    \A p \in Runs :
        /\ gets[p] <= 1
        /\ variant[p] = "zip" =>
              /\ gets[p] = 1 <=> "health_get" \in issued[p]
              /\ issued[p] \cap BuildSteps("zip") # {} => "health_get" \in okSteps[p]
              /\ "health_get" \in issued[p] \ okSteps[p] =>
                    /\ dpc[p] = "exited" /\ dexit[p] = {1}
                    /\ issued[p] \cap BuildSteps("zip") = {}
        /\ variant[p] = "image" =>
              /\ gets[p] = 0
              /\ "health_get" \notin issued[p]
              /\ issued[p] \cap BuildSteps("image") # {} => "docker_ps" \in okSteps[p]
              /\ "docker_ps" \in issued[p] \ okSteps[p] =>
                    /\ dpc[p] = "exited" /\ dexit[p] = {1}
                    /\ issued[p] \cap BuildSteps("image") = {}

\* a zip run whose one GET failed and which exited 1 before any build step,
\* next to an image run that is past check_prerequisites without any GET
C13_Witness ==
    /\ variant[1] = "zip"
    /\ gets[1] = 1
    /\ "health_get" \in issued[1] \ okSteps[1]
    /\ dexit[1] = {1}
    /\ issued[1] \cap BuildSteps("zip") = {}
    /\ variant[2] = "image"
    /\ gets[2] = 0
    /\ "docker_build" \in issued[2]

(***************************************************************************)
(* build_and_package of deploy-lambda-localstack-zip.py on the files of    *)
(* LAMBDA_DIR.  A path is the sequence of its components below LAMBDA_DIR. *)
(***************************************************************************)
BinDir == <<"bin">>
ObjDir == <<"obj">>
PublishDir == <<"publish">>
ZipPath == <<"lambda.zip">>

\* the files a version of the project can publish, relative to the output
\* directory
ProjectFiles == { <<"a.dll">>, <<"b.dll">>, <<"runtimes", "c.so">> }

\* path is strictly below base
IsBelow(base, path) ==
    Len(base) < Len(path) /\ SubSeq(path, 1, Len(base)) = base

\* the directories above a path
Parents(path) == {SubSeq(path, 1, k) : k \in 1..(Len(path) - 1)}

Paths ==
    {BinDir, ObjDir, PublishDir, ZipPath}
        \cup {PublishDir \o f : f \in ProjectFiles}
        \cup UNION {Parents(PublishDir \o f) : f \in ProjectFiles}

\* the names an entry of lambda.zip can have
EntryNames == {SubSeq(q, 2, Len(q)) : q \in {r \in Paths : IsBelow(PublishDir, r)}}

\* Path.exists()
Exists(tree, path) == tree[path] # "none"

\* shutil.rmtree(dir) guarded by dir.exists()
RmTreeIfExists(tree, dir) ==
    [q \in DOMAIN tree |-> IF q = dir \/ IsBelow(dir, q) THEN "none" ELSE tree[q]]

\* build_and_package: "Clean previous builds" removes bin and obj
Clean(tree) == RmTreeIfExists(RmTreeIfExists(tree, BinDir), ObjDir)

\* dotnet publish -c Release -o publish: builds into bin and obj and copies
\* the project's files into publish; it removes nothing from publish
DotnetPublish(tree, proj) ==
    LET written == {PublishDir \o f : f \in proj}
        dirs == {BinDir, ObjDir} \cup UNION {Parents(w) : w \in written}
    IN [q \in DOMAIN tree |->
            IF q \in written THEN "file"
            ELSE IF q \in dirs THEN "dir"
            ELSE tree[q]]

\* a dotnet publish that failed: bin and obj may have been written
DotnetPublishFailed(tree) ==
    [q \in DOMAIN tree |-> IF q \in {BinDir, ObjDir} THEN "dir" ELSE tree[q]]

\* publish_dir.rglob('*'): everything below the directory
RGlob(tree, dir) == {q \in DOMAIN tree : IsBelow(dir, q) /\ Exists(tree, q)}

\* file.is_file()
IsFile(tree, path) == tree[path] = "file"

\* file.relative_to(publish_dir)
RelativeTo(path, dir) == SubSeq(path, Len(dir) + 1, Len(path))

\* a loop that writes every path rglob yields, directories too
PackagedNamesWithDirs(tree) ==
    {RelativeTo(q, PublishDir) : q \in RGlob(tree, PublishDir)}

\* the arcnames written by the loop over rglob: regular files only
PackagedNames(tree) ==
    {RelativeTo(q, PublishDir) : q \in {r \in RGlob(tree, PublishDir) : IsFile(tree, r)}}

\* zip_path.unlink() when it exists, then ZipFile(zip_path, 'w'): a new
\* archive with one entry per name
NewArchive(old, names) ==
    [e \in EntryNames |-> IF e \in names THEN 1 ELSE 0]

InitBuild ==
    /\ bpc = "idle"
    /\ fs = [q \in Paths |-> "none"]
    /\ zipEntries = [e \in EntryNames |-> 0]
    /\ project = { <<"a.dll">>, <<"b.dll">> }
    /\ published = {}
    /\ builds = 0
    /\ bexit = {}
    /\ bcwd = "orig"

\* the developer changes what the project publishes between two runs
edit_project ==
    /\ bpc \in {"idle", "failed", "built"}
    /\ \E proj \in (SUBSET ProjectFiles) \ {{}, project} : project' = proj
    /\ UNCHANGED <<bpc, fs, zipEntries, published, builds, bexit, bcwd>>
    /\ UNCHANGED <<hvars, svars, tvars, dvars>>

\* build_and_package, a new run of the script: os.chdir(LAMBDA_DIR) and the
\* removal of bin and obj
build_and_package_clean ==
    /\ bpc \in {"idle", "failed", "built"}
    /\ builds < MaxBuilds
    /\ builds' = builds + 1
    /\ bcwd' = "lambda_dir"
    /\ bexit' = {}
    /\ fs' = Clean(fs)
    /\ bpc' = "publish"
    /\ UNCHANGED <<zipEntries, project, published>>
    /\ UNCHANGED <<hvars, svars, tvars, dvars>>

\* build_and_package: dotnet publish with check=True; a failure leaves
\* through the finally clause and ends the run with status 1
build_and_package_dotnet ==
    /\ bpc = "publish"
    /\ \E out \in Outcomes :
        LET did == run_command("zip", TRUE, out) IN
        IF did.kind = "exit"
        THEN /\ bpc' = "failed"
             /\ bexit' = {did.rc}
             /\ bcwd' = LeaveScope("orig", bcwd, Leaving(did))
             /\ fs' = IF out = NotFound THEN fs ELSE DotnetPublishFailed(fs)
             /\ UNCHANGED published
        ELSE /\ bpc' = "package"
             /\ fs' = DotnetPublish(fs, project)
             /\ published' = project
             /\ UNCHANGED <<bexit, bcwd>>
    /\ UNCHANGED <<zipEntries, project, builds>>
    /\ UNCHANGED <<hvars, svars, tvars, dvars>>

\* build_and_package: replace lambda.zip by an archive of the regular files
\* below publish, return its path, and the finally clause
build_and_package_zip ==
    /\ bpc = "package"
    /\ zipEntries' = NewArchive(zipEntries, PackagedNames(fs))
    /\ fs' = [fs EXCEPT ![ZipPath] = "file"]
    /\ bpc' = "built"
    /\ bcwd' = LeaveScope("orig", bcwd, "return")
    /\ UNCHANGED <<project, published, builds, bexit>>
    /\ UNCHANGED <<hvars, svars, tvars, dvars>>

NextBuild ==
    \/ edit_project
    \/ build_and_package_clean
    \/ build_and_package_dotnet
    \/ build_and_package_zip

(***************************************************************************)
(* Claims about build_and_package (checked under SpecBuild).               *)
(***************************************************************************)
ZipNames == {e \in EntryNames : zipEntries[e] > 0}

\* C5: build_and_package clears the output of earlier builds before it
\* builds, so after any sequence of builds lambda.zip holds only files that
\* the most recent publish step produced, and a run that follows another
\* run fails only when its own dotnet publish fails.
C5_PackageHoldsOnlyLatestPublish ==
    /\ bpc = "built" => ZipNames = published
    /\ bpc = "publish" => ~Exists(fs, BinDir) /\ ~Exists(fs, ObjDir)
    /\ bpc = "failed" => bexit = {1}

\* C6: after a successful build_and_package every regular file below the
\* publish directory is an entry of lambda.zip under its path relative to
\* that directory, exactly once; nothing else is an entry: no directory,
\* not the publish directory itself, and no entry of an archive that was
\* at the path before.
C6_ArchiveIsThePublishFiles ==
    bpc = "built" =>
        /\ fs[ZipPath] = "file"
        /\ \A e \in EntryNames :
              zipEntries[e] = IF fs[PublishDir \o e] = "file" THEN 1 ELSE 0
        /\ \A e \in ZipNames : e # << >> /\ fs[PublishDir \o e] # "dir"

\* a later build replaced the archive of an earlier one; the publish
\* directory holds a file in a subdirectory, which is an entry under its
\* relative path, while the subdirectory is not
C6_Witness ==
    /\ bpc = "built"
    /\ builds >= 2
    /\ fs[<<"publish", "runtimes">>] = "dir"
    /\ zipEntries[<<"runtimes", "c.so">>] = 1
    /\ zipEntries[<<"runtimes">>] = 0
    /\ zipEntries[<<"a.dll">>] = 1

Init == InitRun /\ InitSetup /\ InitTeardown /\ InitDeploy /\ InitBuild

NextRun == CallRunCommand

SpecRun == Init /\ [][NextRun]_vars

SpecSetup == Init /\ [][NextSetup]_vars

SpecTeardown == Init /\ [][NextTeardown]_vars

Spec == Init /\ [][NextDeploy]_vars

SpecBuild == Init /\ [][NextBuild]_vars

\* one of the scripts is run: a step of a script is taken while the other
\* scripts have not started
NextScripts ==
    \/ InitTeardown /\ InitDeploy /\ InitBuild /\ NextSetup
    \/ InitSetup /\ InitDeploy /\ InitBuild /\ NextTeardown
    \/ InitSetup /\ InitTeardown /\ InitBuild /\ NextDeploy
    \/ InitSetup /\ InitTeardown /\ InitDeploy /\ NextBuild

SpecScripts == Init /\ [][NextScripts]_vars

====
